---------------------------- MODULE Spec2Model ----------------------------
(***************************************************************************)
(* The submission pipeline of app.py (a Streamlit job-application form):   *)
(* validate the form, save the resume, append a CSV record, send the       *)
(* notification emails.  Every browser session runs the script in its own  *)
(* thread, so the sessions of Subs interleave at every file-system or SMTP *)
(* call; the save directory (resume files, applications.csv) and the wall  *)
(* clock are the state they share.                                         *)
(*                                                                         *)
(* Text values are sequences of one-character strings, so that strip, the  *)
(* e-mail pattern and sanitize_filename are computed as the code computes  *)
(* them.                                                                   *)
(***************************************************************************)
EXTENDS Integers, Sequences, FiniteSets, TLC

\* ------------------------------------------------------------------ bounds

\* Last reading of the wall clock, in ticks of 1/TicksPerSec second.
MaxClock == 3

\* Clock ticks per second: time.time() is fractional, int() drops the fraction.
TicksPerSec == 2

\* The concurrent browser sessions.
Subs == {"s1", "s2"}

\* ------------------------------------------------------------------ text

Lower == {"a","b","c","d","e","f","g","h","i","j","k","l","m",
          "n","o","p","q","r","s","t","u","v","w","x","y","z"}

Upper == {"A","B","C","D","E","F","G","H","I","J","K","L","M",
          "N","O","P","Q","R","S","T","U","V","W","X","Y","Z"}

Digits == {"0","1","2","3","4","5","6","7","8","9"}

\* \s of the e-mail pattern, and what str.strip() removes.
IsSpace(c) == c \in {" ", "\t", "\n", "\r"}

\* [a-zA-Z0-9_.-] of sanitize_filename.
IsSafe(c) == c \in Lower \cup Upper \cup Digits \cup {"_", ".", "-"}

RECURSIVE lstrip(_)
lstrip(s) ==
    IF s # <<>> /\ IsSpace(Head(s)) THEN lstrip(Tail(s)) ELSE s

RECURSIVE rstrip(_)
rstrip(s) ==
    IF s # <<>> /\ IsSpace(s[Len(s)]) THEN rstrip(SubSeq(s, 1, Len(s) - 1)) ELSE s

\* (s or "").strip()
strip(s) == rstrip(lstrip(s))

\* [^\s@]+ : a non-empty run without whitespace and without "@".
IsLocalRun(s) ==
    /\ s # <<>>
    /\ \A k \in 1..Len(s) : ~IsSpace(s[k]) /\ s[k] # "@"

\* EMAIL_REGEX.match(strip(s)):  ^[^\s@]+@[^\s@]+\.[^\s@]+$
is_email(s) ==
    LET t == strip(s) IN
    \E a \in 1..Len(t) : \E d \in 1..Len(t) :
        /\ a < d
        /\ t[a] = "@"
        /\ t[d] = "."
        /\ IsLocalRun(SubSeq(t, 1, a - 1))
        /\ IsLocalRun(SubSeq(t, a + 1, d - 1))
        /\ IsLocalRun(SubSeq(t, d + 1, Len(t)))

\* The [:80] of sanitize_filename.
MaxFileStem == 80

\* re.sub(r"[^a-zA-Z0-9_.-]+", "_", s): every maximal run of other characters
\* becomes one "_".
RECURSIVE SubUnsafe(_, _)
SubUnsafe(s, inRun) ==
    IF s = <<>> THEN <<>>
    ELSE IF IsSafe(Head(s)) THEN <<Head(s)>> \o SubUnsafe(Tail(s), FALSE)
    ELSE IF inRun THEN SubUnsafe(Tail(s), TRUE)
    ELSE <<"_">> \o SubUnsafe(Tail(s), TRUE)

sanitize_filename(s) ==
    LET t == SubUnsafe(strip(s), FALSE) IN
    SubSeq(t, 1, IF Len(t) < MaxFileStem THEN Len(t) ELSE MaxFileStem)

\* f"APP-{int(time.time())}" at clock reading t.
create_app_idPerTick(t) == <<"APP-", t>>

create_app_id(t) == <<"APP-", t \div TicksPerSec>>


\* ------------------------------------------------------------------ inputs

Txt_a_b == <<"a", " ", "b">>

Txt_a_u_b == <<"a", "_", "b">>

TxtBlank == <<" ">>

TxtMail == <<"a", "@", "b", ".", "c">>

TxtNoDot == <<"a", "@", "b">>

TxtJob == <<" ", "q", "a">>

TxtId == <<"7">>

PdfType == "application/pdf"

\* No file in the uploader.
NoUpload == [present |-> FALSE, type |-> "", bytes |-> ""]

Upload(t, b) == [present |-> TRUE, type |-> t, bytes |-> b]

\* What st.session_state and the uploader hold when the submit button is
\* pressed.  The referrer keys keep whatever was typed while the referral
\* toggle was on.  st.number_input always yields a number (tenths of a year
\* here), in a one-element sequence; <<>> is Python's None.
Form(name, mail, job, up, ok, ref, rname, rid, rmail) ==
    [full_name |-> name, email |-> mail, phone |-> <<" ", "5">>,
     position |-> job, years_experience |-> <<50>>,
     expected_salary |-> <<>>, location |-> <<>>, linkedin |-> <<>>,
     cover_letter |-> <<>>, resume_file |-> up, consent |-> ok,
     referred_toggle |-> ref, ref_name |-> rname, ref_emp_id |-> rid,
     ref_email |-> rmail]

\* Every combination of satisfied and violated validation rules.
AllForms ==
    { Form(name, mail, job, up, ok, ref, rname, rid, rmail) :
        name \in {TxtBlank, Txt_a_b}, mail \in {TxtNoDot, TxtMail},
        job \in {<<>>, TxtJob},
        up \in {NoUpload, Upload("text/plain", "txt"), Upload(PdfType, "pdf1")},
        ok \in BOOLEAN, ref \in BOOLEAN,
        rname \in {<<>>, Txt_a_b}, rid \in {TxtBlank, TxtId},
        rmail \in {TxtNoDot, TxtMail} }

\* Valid forms for sessions that run side by side: two names with the same
\* sanitized form, two different resumes, with and without a referral.
RaceForms ==
    { Form(Txt_a_b, TxtMail, TxtJob, Upload(PdfType, "pdf1"), TRUE, FALSE,
           <<>>, <<>>, <<>>),
      Form(Txt_a_u_b, TxtMail, TxtJob, Upload(PdfType, "pdf2"), TRUE, TRUE,
           Txt_a_b, TxtId, TxtMail) }

\* A session whose submit button is never pressed.
IdleForm ==
    Form(<<>>, <<>>, <<>>, NoUpload, FALSE, FALSE, <<>>, <<>>, <<>>)

\* ------------------------------------------------------------------ state

VARIABLES
    ss,              \* per session: st.session_state and the uploaded file
    smtpConfigured,  \* SMTP_HOST, SMTP_PORT, SMTP_USER, SMTP_PASS, FROM_EMAIL all set
    clock,           \* the wall clock, in ticks
    pc,              \* per session: where the script is
    shown,           \* per session: the st.error messages, in order
    app_id,          \* per session: create_app_id()'s result, <<>> before
    idTime,          \* per session: the clock reading create_app_id() saw
    timestamp,       \* per session: datetime.utcnow() of line 220
    record,          \* per session: the record dict of lines 235-252
    files,           \* SAVE_DIR's resume files: set of <<name, content>>
    csvExists,       \* CSV_PATH.exists()
    csv,             \* applications.csv: the sequence of its lines
    attempts,        \* per session: the send_email calls made, in order
    sent,            \* per session: the messages the relay accepted, in order
    did              \* per session: the writes it completed

vars == <<ss, smtpConfigured, clock, pc, shown, app_id, idTime, timestamp, record,
          files, csvExists, csv, attempts, sent, did>>

\* ------------------------------------------------------------------ locals

\* Lines 171-180.
full_name(i) == strip(ss[i].full_name)

email(i) == strip(ss[i].email)

position(i) == strip(ss[i].position)

years_experience(i) == ss[i].years_experience

resume_file(i) == ss[i].resume_file

consent(i) == ss[i].consent

\* Line 182.
referred(i) == ss[i].referred_toggle

\* Lines 183-185: (st.session_state.get(key) or "").strip() if referred else "".
RefFieldKept(ref, v) == strip(v)

RefField(ref, v) == IF ref THEN strip(v) ELSE <<>>

ref_name(i) == RefField(referred(i), ss[i].ref_name)

ref_emp_id(i) == RefField(referred(i), ss[i].ref_emp_id)

ref_email(i) == RefField(referred(i), ss[i].ref_email)

\* ------------------------------------------------------------------ validation

Err(violated, msg) == IF violated THEN <<msg>> ELSE <<>>

\* Lines 187-212: the errors list, in the order the checks append to it.
ValidateFirstOnly(i) ==
    LET all == Err(full_name(i) = <<>>, "Full Name is required.")
            \o Err(~is_email(email(i)), "Valid Email is required.")
            \o Err(position(i) = <<>>, "Position is required.")
            \o Err(~resume_file(i).present, "Resume PDF is required.")
            \o Err(~consent(i), "Consent is required to submit the application.")
    IN  IF all = <<>> THEN <<>> ELSE <<Head(all)>>

Validate(i) ==
       Err(full_name(i) = <<>>, "Full Name is required.")
    \o Err(~is_email(email(i)), "Valid Email is required.")
    \o Err(position(i) = <<>>, "Position is required.")
    \o Err(years_experience(i) = <<>>, "Years of Experience is required.")
    \o Err(~resume_file(i).present, "Resume PDF is required.")
    \o Err(~consent(i), "Consent is required to submit the application.")
    \o (IF referred(i)
        THEN    Err(ref_name(i) = <<>>, "Referrer Name is required.")
             \o Err(ref_emp_id(i) = <<>>, "Referrer Employee ID is required.")
             \o Err(~is_email(ref_email(i)), "Valid Referrer Email is required.")
        ELSE <<>>)
    \o Err(resume_file(i).present /\ resume_file(i).type # PdfType,
           "Resume must be a PDF file.")

\* ------------------------------------------------------------------ files

\* Line 223: f"{app_id}_{safe_name}.pdf"; full_name is non-empty once the
\* form is valid, so (full_name or "applicant") is full_name.
ResumeName(id, name) ==
    <<id, sanitize_filename(IF name # <<>> THEN name
                            ELSE <<"a","p","p","l","i","c","a","n","t">>)>>

resume_name(i) == ResumeName(app_id[i], full_name(i))

HasFile(name) == \E f \in files : f[1] = name

FileContent(name) == (CHOOSE f \in files : f[1] = name)[2]

\* The directory after a write of content c to the file called name.
WithFile(name, c) == {f \in files : f[1] # name} \cup {<<name, c>>}

\* Lines 58-64: the header's cells.
HeaderCells ==
    <<"app_id", "timestamp_iso", "full_name", "email", "phone", "position",
      "years_experience", "expected_salary", "location", "linkedin",
      "cover_letter", "referred", "ref_name", "ref_emp_id", "ref_email",
      "resume_filename">>

\* A line of the CSV file: the header, a record's line, or what is left of a
\* line whose first bytes another writer overwrote.
Header == <<"header", HeaderCells>>

Torn == <<"torn">>

\* Lines 235-252.
BuildRecord(i) ==
    [app_id |-> app_id[i], timestamp_iso |-> timestamp[i], full_name |-> full_name(i),
     email |-> email(i), phone |-> strip(ss[i].phone),
     position |-> position(i), years_experience |-> years_experience(i),
     expected_salary |-> strip(ss[i].expected_salary),
     location |-> strip(ss[i].location), linkedin |-> strip(ss[i].linkedin),
     cover_letter |-> strip(ss[i].cover_letter),
     referred |-> IF referred(i) THEN "Yes" ELSE "No",
     ref_name |-> ref_name(i), ref_emp_id |-> ref_emp_id(i),
     ref_email |-> ref_email(i), resume_filename |-> resume_name(i)]

BlankRecord ==
    [app_id |-> <<>>, timestamp_iso |-> 0, full_name |-> <<>>,
     email |-> <<>>, phone |-> <<>>, position |-> <<>>,
     years_experience |-> <<>>, expected_salary |-> <<>>, location |-> <<>>,
     linkedin |-> <<>>, cover_letter |-> <<>>, referred |-> "",
     ref_name |-> <<>>, ref_emp_id |-> <<>>, ref_email |-> <<>>,
     resume_filename |-> <<>>]

\* Lines 70-87: the cells writerow() writes for a record.
RowCells(r) ==
    <<r.app_id, r.timestamp_iso, r.full_name, r.email, r.phone, r.position,
      r.years_experience, r.expected_salary, r.location, r.linkedin,
      r.cover_letter, r.referred, r.ref_name, r.ref_emp_id, r.ref_email,
      r.resume_filename>>

Row(r) == <<"row", RowCells(r)>>


\* ------------------------------------------------------------------ messages

\* Lines 306, 309, 313: the three send_email calls.
ApplicantMsg(i) == [kind |-> "applicant", to |-> email(i), attachment |-> <<>>]

HRMsg(i) == [kind |-> "hr", to |-> <<"H", "R">>, attachment |-> resume_name(i)]

ReferrerMsg(i) == [kind |-> "referrer", to |-> ref_email(i), attachment |-> <<>>]

\* Line 312: if referred and ref_email.
ReferrerDueAlways(i) == TRUE

ReferrerDue(i) == referred(i) /\ ref_email(i) # <<>>

\* Line 93: send_email raises unless the SMTP settings are all set; with
\* them set, the relay accepts the message or the send raises.
SendOutcomes == IF smtpConfigured THEN BOOLEAN ELSE {FALSE}

\* ------------------------------------------------------------------ initial state

Blank(v) == [i \in Subs |-> v]

InitLocals ==
    /\ smtpConfigured \in BOOLEAN
    /\ clock = 0
    /\ shown = Blank(<<>>)
    /\ app_id = Blank(<<>>)
    /\ idTime = Blank(0)
    /\ timestamp = Blank(0)
    /\ record = Blank(BlankRecord)
    /\ files = {}
    /\ csvExists = FALSE
    /\ csv = <<>>
    /\ attempts = Blank(<<>>)
    /\ sent = Blank(<<>>)
    /\ did = Blank({})

\* Either one session submits any form while the others stay idle, or every
\* session submits a valid form.
Init ==
    /\ InitLocals
    /\ \/ /\ \E f \in AllForms : ss = [i \in Subs |-> IF i = "s1" THEN f ELSE IdleForm]
          /\ pc = [i \in Subs |-> IF i = "s1" THEN "Submitted" ELSE "Idle"]
       \/ /\ ss \in [Subs -> RaceForms]
          /\ pc = Blank("Submitted")

\* ------------------------------------------------------------------ actions

Goto(i, label) == pc' = [pc EXCEPT ![i] = label]

\* st.error(msg).
Report(i, msgs) == shown' = [shown EXCEPT ![i] = @ \o msgs]

Mark(i, what) == did' = [did EXCEPT ![i] = @ \cup {what}]

\* The wall clock advances.  Only create_app_id and line 220 read it, so it
\* is followed while some session has yet to read it.
Tick ==
    /\ clock < MaxClock
    /\ \E i \in Subs : pc[i] \in {"Submitted", "GenId"}
    /\ clock' = clock + 1
    /\ UNCHANGED <<ss, smtpConfigured, pc, shown, app_id, idTime, timestamp,
                   record, files, csvExists, csv, attempts, sent, did>>

\* Lines 214-217: with errors, show each and st.stop(); else go on.
AfterValidateIgnoring(i, errors) ==
    /\ Goto(i, "GenId")
    /\ UNCHANGED shown

AfterValidate(i, errors) ==
    IF errors # <<>>
    THEN Goto(i, "Rejected") /\ Report(i, errors)
    ELSE Goto(i, "GenId") /\ UNCHANGED shown

\* Lines 167-217.
ValidateForm(i) ==
    /\ pc[i] = "Submitted"
    /\ AfterValidate(i, Validate(i))
    /\ UNCHANGED <<ss, smtpConfigured, clock, app_id, idTime, timestamp,
                   record, files, csvExists, csv, attempts, sent, did>>

\* Lines 220-224: timestamp, app_id, the resume's file name.
GenId(i) ==
    /\ pc[i] = "GenId"
    /\ timestamp' = [timestamp EXCEPT ![i] = clock]
    /\ idTime' = [idTime EXCEPT ![i] = clock]
    /\ app_id' = [app_id EXCEPT ![i] = create_app_id(clock)]
    /\ Goto(i, "OpenResume")
    /\ UNCHANGED <<ss, smtpConfigured, clock, shown, record, files, csvExists,
                   csv, attempts, sent, did>>

\* Lines 227-228: open(resume_path, "wb") creates the file or empties it.
OpenResume(i) ==
    /\ pc[i] = "OpenResume"
    /\ files' = WithFile(resume_name(i), "")
    /\ Mark(i, "resume_open")
    /\ Goto(i, "WriteResume")
    /\ UNCHANGED <<ss, smtpConfigured, clock, shown, app_id, idTime, timestamp,
                   record, csvExists, csv, attempts, sent>>

\* Line 229 and the record dict of lines 235-252.
WriteResume(i) ==
    /\ pc[i] = "WriteResume"
    /\ files' = WithFile(resume_name(i), resume_file(i).bytes)
    /\ record' = [record EXCEPT ![i] = BuildRecord(i)]
    /\ Mark(i, "resume")
    /\ Goto(i, "HeaderCheck")
    /\ UNCHANGED <<ss, smtpConfigured, clock, shown, app_id, idTime, timestamp,
                   csvExists, csv, attempts, sent>>

\* Where the script goes when a storage call raises: st.error, st.stop().
AfterStorageErrorGoesOn(i) == Goto(i, "SendApplicant")

AfterStorageError(i) == Goto(i, "Failed")

\* Lines 230-232: read(), open() or write() raised.
ResumeFail(i) ==
    /\ pc[i] \in {"OpenResume", "WriteResume"}
    /\ Report(i, <<"Failed to save resume">>)
    /\ AfterStorageError(i)
    /\ UNCHANGED <<ss, smtpConfigured, clock, app_id, idTime, timestamp,
                   record, files, csvExists, csv, attempts, sent, did>>

\* Line 55: if not path.exists().
HeaderCheck(i) ==
    /\ pc[i] = "HeaderCheck"
    /\ Goto(i, IF csvExists THEN "AppendRow" ELSE "HeaderOpen")
    /\ UNCHANGED <<ss, smtpConfigured, clock, shown, app_id, idTime, timestamp,
                   record, files, csvExists, csv, attempts, sent, did>>

\* Line 56: open(path, "w") creates the file or empties it.
HeaderOpen(i) ==
    /\ pc[i] = "HeaderOpen"
    /\ csvExists' = TRUE
    /\ csv' = <<>>
    /\ Mark(i, "csv_open")
    /\ Goto(i, "HeaderWrite")
    /\ UNCHANGED <<ss, smtpConfigured, clock, shown, app_id, idTime, timestamp,
                   record, files, attempts, sent>>

\* Lines 57-64: the header goes out when the file is closed, at offset 0 of
\* a file not opened for append.  Over a line another writer appended since
\* the open, it replaces that line, or its first bytes when the line is the
\* longer one.
HeaderWrite(i) ==
    /\ pc[i] = "HeaderWrite"
    /\ \/ /\ csv = <<>>
          /\ csv' = <<Header>>
       \/ /\ csv # <<>>
          /\ csv[1] = Header
          /\ csv' = csv
       \/ /\ csv # <<>>
          /\ csv[1] # Header
          /\ \E tail \in {<<>>, <<Torn>>} : csv' = <<Header>> \o tail \o Tail(csv)
    /\ Mark(i, "header")
    /\ Goto(i, "AppendRow")
    /\ UNCHANGED <<ss, smtpConfigured, clock, shown, app_id, idTime, timestamp,
                   record, files, csvExists, attempts, sent>>

\* Lines 68-87: open(CSV_PATH, "a") and one writerow(); the line goes out in
\* one write at the end of the file.
AppendRow(i) ==
    /\ pc[i] = "AppendRow"
    /\ csvExists' = TRUE
    /\ csv' = Append(csv, Row(record[i]))
    /\ Mark(i, "row")
    /\ Goto(i, "SendApplicant")
    /\ UNCHANGED <<ss, smtpConfigured, clock, shown, app_id, idTime, timestamp,
                   record, files, attempts, sent>>

\* Lines 256-258: append_application_row raised.
RecordFail(i) ==
    /\ pc[i] \in {"HeaderCheck", "HeaderOpen", "HeaderWrite", "AppendRow"}
    /\ Report(i, <<"Failed to save application record">>)
    /\ AfterStorageError(i)
    /\ UNCHANGED <<ss, smtpConfigured, clock, app_id, idTime, timestamp,
                   record, files, csvExists, csv, attempts, sent, did>>

\* Lines 328-330: a send raised; st.error, st.stop().
SendFailedRollsBack(i) ==
    /\ Report(i, <<"Emails could not be sent">>)
    /\ Goto(i, "PartiallyFailed")
    /\ csv' = SelectSeq(csv, LAMBDA line : line # Row(record[i]))
    /\ UNCHANGED <<sent, files, csvExists>>

SendFailedGoesOn(i) ==
    /\ Report(i, <<"Emails could not be sent">>)
    /\ Goto(i, IF pc[i] = "SendApplicant" THEN "SendHR" ELSE "PartiallyFailed")
    /\ UNCHANGED <<sent, files, csvExists, csv>>

SendFailed(i) ==
    /\ Report(i, <<"Emails could not be sent">>)
    /\ Goto(i, "PartiallyFailed")
    /\ UNCHANGED <<sent, files, csvExists, csv>>

\* One send_email call of the try block of lines 304-330.
Send(i, msg, next) ==
    /\ attempts' = [attempts EXCEPT ![i] = Append(@, msg.kind)]
    /\ \E ok \in SendOutcomes :
          IF ok
          THEN /\ sent' = [sent EXCEPT ![i] = Append(@, msg)]
               /\ Goto(i, next)
               /\ UNCHANGED <<shown, files, csvExists, csv>>
          ELSE SendFailed(i)
    /\ UNCHANGED <<ss, smtpConfigured, clock, app_id, idTime, timestamp,
                   record, did>>

\* Line 306.
SendApplicant(i) ==
    /\ pc[i] = "SendApplicant"
    /\ Send(i, ApplicantMsg(i), "SendHR")

\* Lines 309-312.
SendHR(i) ==
    /\ pc[i] = "SendHR"
    /\ Send(i, HRMsg(i), IF ReferrerDue(i) THEN "SendReferrer" ELSE "Completed")

\* Lines 313-326.
SendReferrer(i) ==
    /\ pc[i] = "SendReferrer"
    /\ Send(i, ReferrerMsg(i), "Completed")

Next ==
    \/ Tick
    \/ \E i \in Subs :
        \/ ValidateForm(i)
        \/ GenId(i)
        \/ OpenResume(i)
        \/ WriteResume(i)
        \/ ResumeFail(i)
        \/ HeaderCheck(i)
        \/ HeaderOpen(i)
        \/ HeaderWrite(i)
        \/ AppendRow(i)
        \/ RecordFail(i)
        \/ SendApplicant(i)
        \/ SendHR(i)
        \/ SendReferrer(i)

Spec == Init /\ [][Next]_vars


\* ------------------------------------------------------------------ properties

Started(i) == pc[i] \notin {"Idle", "Submitted"}

Terminal(i) == pc[i] \in {"Idle", "Rejected", "Failed", "Completed", "PartiallyFailed"}

Kinds(msgs) == [k \in 1..Len(msgs) |-> msgs[k].kind]

IsPrefix(a, b) == Len(a) <= Len(b) /\ a = SubSeq(b, 1, Len(a))

\* The sends a valid submission is due, from what the form holds.
Plan(i) ==
    <<"applicant", "hr">>
    \o (IF ss[i].referred_toggle /\ strip(ss[i].ref_email) # <<>>
        THEN <<"referrer">> ELSE <<>>)

\* Some validation rule of the form is violated, read off the form itself.
SomeRuleViolated(i) ==
    \/ strip(ss[i].full_name) = <<>>
    \/ ~is_email(ss[i].email)
    \/ strip(ss[i].position) = <<>>
    \/ ~ss[i].resume_file.present
    \/ ss[i].resume_file.type # PdfType
    \/ ~ss[i].consent
    \/ /\ ss[i].referred_toggle
       /\ \/ strip(ss[i].ref_name) = <<>>
          \/ strip(ss[i].ref_emp_id) = <<>>
          \/ ~is_email(ss[i].ref_email)

\* C1: a submission that violates a validation rule ends in Rejected, having
\* written no resume file and no CSV line and having called send_email never.
C1_InvalidIsRejected ==
    \A i \in Subs :
        (Started(i) /\ SomeRuleViolated(i)) =>
            /\ pc[i] = "Rejected"
            /\ shown[i] # <<>>
            /\ did[i] = {}
            /\ app_id[i] = <<>>
            /\ record[i] = BlankRecord
            /\ attempts[i] = <<>>
            /\ sent[i] = <<>>

C1_Witness ==
    \E i \in Subs :
        /\ pc[i] = "Rejected"
        /\ ss[i].resume_file.present
        /\ ss[i].resume_file.type # PdfType
        /\ ~ss[i].consent

StorageErrors == {"Failed to save resume", "Failed to save application record"}

\* C2: once writing the resume or appending the record has failed, the
\* submission has reported that one error and stopped, and no send_email
\* call is ever made for it.
C2_StorageFailureStops ==
    \A i \in Subs :
        (\E k \in 1..Len(shown[i]) : shown[i][k] \in StorageErrors) =>
            /\ pc[i] = "Failed"
            /\ Len(shown[i]) = 1
            /\ "row" \notin did[i]
            /\ attempts[i] = <<>>
            /\ sent[i] = <<>>

C2_Witness ==
    \E i \in Subs :
        /\ pc[i] = "Failed"
        /\ shown[i] = <<"Failed to save application record">>
        /\ "resume" \in did[i]
        /\ smtpConfigured

\* C3: the sends are attempted in the order applicant, HR, referrer (when
\* due), each only after every earlier one succeeded; the first failure
\* ends the submission in PartiallyFailed with one error and no further
\* attempt.
C3_SendOrder ==
    \A i \in Subs :
        /\ IsPrefix(attempts[i], Plan(i))
        /\ IsPrefix(Kinds(sent[i]), attempts[i])
        /\ Len(attempts[i]) <= Len(sent[i]) + 1
        /\ (Len(attempts[i]) = Len(sent[i]) + 1) <=> (pc[i] = "PartiallyFailed")
        /\ attempts[i] # <<>> => {"resume", "row"} \subseteq did[i]
        /\ pc[i] = "PartiallyFailed" => shown[i] = <<"Emails could not be sent">>

C3_Witness ==
    \E i \in Subs :
        /\ pc[i] = "PartiallyFailed"
        /\ Plan(i) = <<"applicant", "hr", "referrer">>
        /\ attempts[i] = <<"applicant", "hr">>
        /\ Kinds(sent[i]) = <<"applicant">>

\* C4: the referrer notice is sent exactly when referred is true and the
\* referrer email is non-empty: a completed submission has sent applicant
\* and HR (2 messages) when not referred, and applicant, HR and referrer
\* (3 messages, the last to the referrer's address) when referred.
C4_ReferrerIffReferred ==
    \A i \in Subs :
        /\ (\E k \in 1..Len(sent[i]) : sent[i][k].kind = "referrer") =>
              /\ ss[i].referred_toggle
              /\ strip(ss[i].ref_email) # <<>>
              /\ sent[i][Len(sent[i])].to = strip(ss[i].ref_email)
        /\ pc[i] = "Completed" =>
              /\ Kinds(sent[i]) =
                    IF ss[i].referred_toggle
                    THEN <<"applicant", "hr", "referrer">>
                    ELSE <<"applicant", "hr">>
              /\ attempts[i] = Kinds(sent[i])
              /\ shown[i] = <<>>

C4_Witness ==
    \E i \in Subs : \E j \in Subs :
        /\ pc[i] = "Completed" /\ ~ss[i].referred_toggle /\ Len(sent[i]) = 2
        /\ pc[j] = "Completed" /\ ss[j].referred_toggle /\ Len(sent[j]) = 3

ReferralErrors ==
    {"Referrer Name is required.", "Referrer Employee ID is required.",
     "Valid Referrer Email is required."}

\* C5: with the referral toggle off, the record that is built and the line
\* that is persisted have referred = "No" and empty ref_name, ref_emp_id
\* and ref_email, whatever the session state holds under those keys, and no
\* referral error is shown.
C5_ReferralBlanked ==
    /\ \A i \in Subs :
          ~ss[i].referred_toggle =>
             /\ \A k \in 1..Len(shown[i]) : shown[i][k] \notin ReferralErrors
             /\ "resume" \in did[i] =>
                   /\ record[i].referred = "No"
                   /\ record[i].ref_name = <<>>
                   /\ record[i].ref_emp_id = <<>>
                   /\ record[i].ref_email = <<>>
    /\ \A k \in 1..Len(csv) :
          (csv[k][1] = "row" /\ csv[k][2][12] = "No") =>
              csv[k][2][13] = <<>> /\ csv[k][2][14] = <<>> /\ csv[k][2][15] = <<>>

C5_Witness ==
    \E i \in Subs :
        /\ ~ss[i].referred_toggle
        /\ ss[i].ref_name # <<>>
        /\ strip(ss[i].ref_emp_id) # <<>>
        /\ ss[i].ref_email # <<>>
        /\ "row" \in did[i]
        /\ \E k \in 1..Len(csv) : csv[k] = Row(record[i])

\* The message of a violated rule, or none.
RuleError(violated, msg) == IF violated THEN <<msg>> ELSE <<>>

ResumeError(i) ==
    IF ~ss[i].resume_file.present THEN <<"Resume PDF is required.">>
    ELSE IF ss[i].resume_file.type # PdfType THEN <<"Resume must be a PDF file.">>
    ELSE <<>>

ReferralErrorsOf(i) ==
    IF ss[i].referred_toggle
    THEN    RuleError(strip(ss[i].ref_name) = <<>>, "Referrer Name is required.")
         \o RuleError(strip(ss[i].ref_emp_id) = <<>>, "Referrer Employee ID is required.")
         \o RuleError(~is_email(ss[i].ref_email), "Valid Referrer Email is required.")
    ELSE <<>>

\* One message per violated rule in the order full name, email, position,
\* resume (present and a PDF), consent, referral.
ErrorsResumeFourth(i) ==
       RuleError(strip(ss[i].full_name) = <<>>, "Full Name is required.")
    \o RuleError(~is_email(ss[i].email), "Valid Email is required.")
    \o RuleError(strip(ss[i].position) = <<>>, "Position is required.")
    \o ResumeError(i)
    \o RuleError(~ss[i].consent, "Consent is required to submit the application.")
    \o ReferralErrorsOf(i)

\* The same, with the message about the resume's type last.
ErrorsResumeTypeLast(i) ==
       RuleError(strip(ss[i].full_name) = <<>>, "Full Name is required.")
    \o RuleError(~is_email(ss[i].email), "Valid Email is required.")
    \o RuleError(strip(ss[i].position) = <<>>, "Position is required.")
    \o RuleError(ss[i].years_experience = <<>>, "Years of Experience is required.")
    \o RuleError(~ss[i].resume_file.present, "Resume PDF is required.")
    \o RuleError(~ss[i].consent, "Consent is required to submit the application.")
    \o ReferralErrorsOf(i)
    \o RuleError(ss[i].resume_file.present /\ ss[i].resume_file.type # PdfType,
                 "Resume must be a PDF file.")

\* C6 as stated: the errors shown are one per violated rule in the order
\* full name, email, position, resume present and of type application/pdf,
\* consent, then the referral rules.
C6_ErrorsInStatedOrder ==
    \A i \in Subs :
        Started(i) =>
            /\ (ErrorsResumeFourth(i) # <<>>) <=> (pc[i] = "Rejected")
            /\ pc[i] = "Rejected" => shown[i] = ErrorsResumeFourth(i)

\* C6, amended: every rule is evaluated and the errors shown are one per
\* violated rule, all together, in the order full name, email, position,
\* years of experience, resume missing, consent, the referral rules (only
\* when referred), and last the resume's type; none exactly when no rule is
\* violated.
C6_ErrorsInCheckOrder ==
    \A i \in Subs :
        Started(i) =>
            /\ (ErrorsResumeTypeLast(i) # <<>>) <=> (pc[i] = "Rejected")
            /\ (SomeRuleViolated(i)) <=> (pc[i] = "Rejected")
            /\ pc[i] = "Rejected" => shown[i] = ErrorsResumeTypeLast(i)

C6_Witness ==
    \E i \in Subs :
        /\ pc[i] = "Rejected"
        /\ Len(shown[i]) = 8
        /\ shown[i][4] = "Consent is required to submit the application."
        /\ shown[i][8] = "Resume must be a PDF file."

SendLabels == {"SendApplicant", "SendHR", "SendReferrer"}

\* C7: a failed send changes neither the CSV file nor the resume files nor
\* the messages already sent; a submission in PartiallyFailed stays there
\* with no further send; and it has persisted its resume and its record and
\* sent a strict prefix of its due messages.
C7_SendFailureKeepsStore ==
    [][\A i \in Subs :
          /\ (pc[i] \in SendLabels /\ pc'[i] = "PartiallyFailed") =>
                /\ csv' = csv /\ csvExists' = csvExists /\ files' = files
                /\ sent' = sent /\ did' = did /\ record' = record
          /\ pc[i] = "PartiallyFailed" =>
                /\ pc'[i] = "PartiallyFailed"
                /\ sent'[i] = sent[i]
                /\ attempts'[i] = attempts[i]
          /\ pc'[i] = "PartiallyFailed" =>
                /\ {"resume", "row"} \subseteq did'[i]
                /\ IsPrefix(Kinds(sent'[i]), Plan(i))
                /\ Len(sent'[i]) < Len(Plan(i))
      ]_vars

C7_Witness ==
    \E i \in Subs :
        /\ pc[i] = "PartiallyFailed"
        /\ Kinds(sent[i]) = <<"applicant", "hr">>
        /\ \E k \in 1..Len(csv) : csv[k] = Row(record[i])
        /\ HasFile(resume_name(i))
        /\ FileContent(resume_name(i)) = resume_file(i).bytes

\* The number of places of a sequence that hold x.
Count(seq, x) == Cardinality({k \in 1..Len(seq) : seq[k] = x})

\* C8: when every submission has ended and none reported a storage error,
\* the CSV file is one header followed by exactly one intact line per
\* submission that appended its record.
C8_StoreIntact ==
    ((\A i \in Subs : Terminal(i) /\ pc[i] # "Failed") /\ csvExists) =>
        /\ csv # <<>>
        /\ csv[1] = Header
        /\ Len(csv) = 1 + Cardinality({i \in Subs : "row" \in did[i]})
        /\ \A i \in Subs :
              "row" \in did[i] =>
                  Count(Tail(csv), Row(record[i])) =
                      Cardinality({j \in Subs : "row" \in did[j] /\ record[j] = record[i]})

\* C9: an identifier is "APP-" and the whole second of the call; calls more
\* than one second apart get distinct identifiers, calls in the same second
\* get the same one.
C9_IdPerSecond ==
    \A i \in Subs : \A j \in Subs :
        (app_id[i] # <<>> /\ app_id[j] # <<>>) =>
            /\ app_id[i][1] = "APP-"
            /\ app_id[i][2] * TicksPerSec <= idTime[i]
            /\ idTime[i] < (app_id[i][2] + 1) * TicksPerSec
            /\ (idTime[i] - idTime[j] > TicksPerSec) => app_id[i] # app_id[j]
            /\ (idTime[i] \div TicksPerSec = idTime[j] \div TicksPerSec) =>
                  app_id[i] = app_id[j]

C9_Witness ==
    \E i \in Subs : \E j \in Subs :
        /\ "row" \in did[i] /\ "row" \in did[j]
        /\ idTime[i] # idTime[j]
        /\ record[i].app_id = record[j].app_id
        /\ Count(csv, Row(record[i])) = 1 /\ Count(csv, Row(record[j])) = 1

\* Two identifiers taken more than a second apart.
C9_FarApart ==
    \E i \in Subs : \E j \in Subs :
        /\ app_id[i] # <<>> /\ app_id[j] # <<>>
        /\ idTime[i] - idTime[j] > TicksPerSec

\* C10: when every submission has ended and none reported a storage error,
\* the file named by each persisted line exists and holds the resume
\* uploaded by the submission that wrote the line.
C10_RowsHaveTheirResume ==
    (\A i \in Subs : Terminal(i) /\ pc[i] # "Failed") =>
        \A i \in Subs :
            ("row" \in did[i] /\ \E k \in 1..Len(csv) : csv[k] = Row(record[i])) =>
                /\ HasFile(record[i].resume_filename)
                /\ FileContent(record[i].resume_filename) = resume_file(i).bytes

=============================================================================
